---- MODULE Spec2Model ----
(***************************************************************************)
(* prawcore.sessions: the retry strategy (FiniteRetryStrategy) and the     *)
(* request pipeline of Session (request, _request_with_retries,            *)
(* _make_request, _do_retry, _set_header_callback).                        *)
(*                                                                         *)
(* A thread runs one logical request.  Its steps are cut at the blocking   *)
(* calls of the code: the backoff sleep, the header callback (which may    *)
(* refresh the token) and the transport call; everything the code does     *)
(* between two blocking calls is one action.                               *)
(***************************************************************************)
EXTENDS Integers, Sequences, FiniteSets, TLC

(***************************************************************************)
(* Bounds of the model.                                                    *)
(***************************************************************************)
\* Threads that may each run one logical request on the session.
NumThreads == 2
\* Largest retries value a strategy handed to _request_with_retries holds.
MaxRetries == 3
\* random.random() is drawn from {0/JitterSteps, ..., (JitterSteps-1)/JitterSteps};
\* delays are counted in units of 1/JitterSteps second.
JitterSteps == 2
\* FiniteRetryStrategy instances the strategy's own specification creates.
MaxObjects == 4

Threads == 1..NumThreads

(***************************************************************************)
(* FiniteRetryStrategy.  A strategy instance is its _retries value.        *)
(***************************************************************************)
\* FiniteRetryStrategy.__init__(retries=3)
DefaultRetries == 3

\* The value None of Optional[float] in _sleep_seconds.
None == -1

\* Mutant: the schedule starts one attempt early.
sleep_base_from_first(retries) ==
    IF retries = 3 THEN 0 ELSE IF retries = 2 THEN 2 ELSE None

\* Mutant: the two bases are swapped.
sleep_base_swapped(retries) ==
    IF retries < 3
    THEN (IF retries = 2 THEN 2 ELSE 0)
    ELSE None

\* FiniteRetryStrategy._sleep_seconds, without the jitter: the base delay in
\* seconds, or None.
sleep_base(retries) ==
    IF retries < 3
    THEN (IF retries = 2 THEN 0 ELSE 2)
    ELSE None

\* FiniteRetryStrategy._sleep_seconds: base + 2 * random.random(), in units of
\* 1/JitterSteps second, with random.random() = j/JitterSteps.
sleep_seconds(retries, j) ==
    IF sleep_base(retries) = None
    THEN None
    ELSE sleep_base(retries) * JitterSteps + 2 * j

\* Mutant: a retry costs two.
consume_available_retry_by_two(retries) == retries - 2

\* FiniteRetryStrategy.consume_available_retry
consume_available_retry(retries) == retries - 1

\* Mutant: the last retry is never granted.
should_retry_on_failure_early(retries) == retries > 2

\* Mutant: one retry too many is granted.
should_retry_on_failure_late(retries) == retries >= 1

\* FiniteRetryStrategy.should_retry_on_failure
should_retry_on_failure(retries) == retries > 1

\* A FiniteRetryStrategy instance on the heap: its _retries, and the instance
\* whose consume_available_retry() created it (0: the constructor was called
\* directly).
Instance(retries, parent) == [retries |-> retries, parent |-> parent]

\* No consume_available_retry() call has been made yet.
NoCall == [receiver |-> 0, ref |-> 0, before |-> 0]

\* Mutant: the receiver is decremented and returned.
consume_instance_in_place(h, o) ==
    [heap |-> [h EXCEPT ![o].retries = consume_available_retry(@)],
     ref |-> o]

\* FiniteRetryStrategy.consume_available_retry on instance o of heap h,
\* return type(self)(self._retries - 1): the heap afterwards and the instance
\* returned.
consume_instance(h, o) ==
    [heap |-> Append(h, Instance(consume_available_retry(h[o].retries), o)),
     ref |-> Len(h) + 1]

(***************************************************************************)
(* Session's class tables.  Status codes are requests.status_codes.codes.  *)
(***************************************************************************)
Unauthorized == 401
NoContent == 204

\* Mutant: an invalid URL is taken for a transient failure.
RETRY_EXCEPTIONS_with_InvalidURL ==
    {"ChunkedEncodingError", "ConnectionError", "ReadTimeout", "InvalidURL"}

RETRY_EXCEPTIONS == {"ChunkedEncodingError", "ConnectionError", "ReadTimeout"}

\* Mutant: service_unavailable is missing from the set.
RETRY_STATUSES_without_503 == {520, 522, 502, 504, 500, 408}

\* Mutant: 404 is retried as well.
RETRY_STATUSES_with_404 == {520, 522, 502, 504, 500, 408, 503, 404}

RETRY_STATUSES == {520, 522, 502, 504, 500, 408, 503}

STATUS_EXCEPTIONS ==
    (502 :> "ServerError") @@
    (400 :> "BadRequest") @@
    (409 :> "Conflict") @@
    (302 :> "Redirect") @@
    (403 :> "authorization_error_class") @@
    (504 :> "ServerError") @@
    (500 :> "ServerError") @@
    (415 :> "SpecialError") @@
    (301 :> "Redirect") @@
    (404 :> "NotFound") @@
    (413 :> "TooLarge") @@
    (414 :> "URITooLong") @@
    (503 :> "ServerError") @@
    (429 :> "TooManyRequests") @@
    (401 :> "authorization_error_class") @@
    (451 :> "UnavailableForLegalReasons") @@
    (520 :> "ServerError") @@
    (522 :> "ServerError")

\* Mutant: 203 counts as a success.
SUCCESS_STATUSES_with_203 == {202, 201, 200, 203}

SUCCESS_STATUSES == {202, 201, 200}

(***************************************************************************)
(* Session.request's arguments.  A mapping is its set of <<key, value>>    *)
(* items; an argument is None, a dict, bytes, or (once normalised) the     *)
(* sorted list of a dict's items.                                          *)
(***************************************************************************)
NoneArg == [kind |-> "None", items |-> {}]
Dict(items) == [kind |-> "dict", items |-> items]
Bytes == [kind |-> "bytes", items |-> {}]
List(pairs) == [kind |-> "list", items |-> pairs]

NoArguments == [params |-> NoneArg, data |-> NoneArg, json |-> NoneArg]

\* The keys of the model's mappings, in the order sorted() gives them.
KeyOrder == <<"a", "api_type", "b", "raw_json">>

\* mapping[key] = value
setitem(items, key, value) ==
    {kv \in items : kv[1] # key} \cup {<<key, value>>}

\* sorted(mapping.items())
sorted_items(items) ==
    LET Has(k) == \E kv \in items : kv[1] = k
        keys == SelectSeq(KeyOrder, Has)
    IN  [i \in 1..Len(keys) |-> CHOOSE kv \in items : kv[1] = keys[i]]

\* Mutant: the key is set on the caller's params, without the deepcopy.
request_params_no_copy(params) ==
    [sent |-> Dict(setitem(params.items, "raw_json", "1")),
     caller |-> IF params.kind = "dict" /\ params.items # {}
                THEN Dict(setitem(params.items, "raw_json", "1"))
                ELSE params]

\* Session.request, lines 336-337: params = deepcopy(params) or {}, then
\* params["raw_json"] = 1.  What is passed on, and the caller's object after.
request_params(params) ==
    [sent |-> Dict(setitem(IF params.kind = "dict" THEN params.items ELSE {},
                           "raw_json", "1")),
     caller |-> params]

\* Session.request, lines 338-341: a dict is copied, given api_type and turned
\* into its sorted items; anything else is passed as it is.
request_data(data) ==
    [sent |-> IF data.kind = "dict"
              THEN List(sorted_items(setitem(data.items, "api_type", "json")))
              ELSE data,
     caller |-> data]

\* Session.request, lines 342-344: a dict is copied and given api_type.
request_json(json_arg) ==
    [sent |-> IF json_arg.kind = "dict"
              THEN Dict(setitem(json_arg.items, "api_type", "json"))
              ELSE json_arg,
     caller |-> json_arg]

\* The arguments a caller passes to Session.request.
Arguments ==
    {NoArguments,
     [params |-> Dict({<<"a", "1">>}),
      data |-> Dict({<<"b", "2">>, <<"a", "1">>}),
      json |-> Dict({<<"api_type", "xml">>, <<"b", "2">>})],
     [params |-> Dict({}),
      data |-> Bytes,
      json |-> Dict({<<"a", "1">>})]}

(***************************************************************************)
(* What the transport can answer to one attempt.                           *)
(***************************************************************************)
NoException == "-"

\* Causes a RequestException can wrap (exception.original_exception).
Causes == RETRY_EXCEPTIONS \cup {"InvalidURL"}

\* Statuses the server may answer with: every status of the tables, the
\* no-content status, and statuses none of the tables names.
Statuses ==
    SUCCESS_STATUSES \cup RETRY_STATUSES \cup DOMAIN STATUS_EXCEPTIONS
        \cup {NoContent, 203, 420}

\* Response bodies, and the content-length header a body may come with: its
\* length, or no such header (a chunked response).
Bodies == {"{}", "[]", "null", "<html>", ""}
content_length(body) ==
    CASE body = "" -> "0"
      [] body \in {"{}", "[]"} -> "2"
      [] body = "null" -> "4"
      [] OTHER -> "6"
Lengths(body) == {content_length(body), "absent"}

\* response.json(): the decoded value (its Python type and repr), or a
\* ValueError.
json(body) ==
    CASE body = "{}" -> [ok |-> TRUE, type |-> "dict", value |-> "dict()"]
      [] body = "[]" -> [ok |-> TRUE, type |-> "list", value |-> "list()"]
      [] body = "null" -> [ok |-> TRUE, type |-> "NoneType", value |-> "None"]
      [] OTHER -> [ok |-> FALSE, type |-> "ValueError", value |-> "ValueError"]

Response(status, length, body) ==
    [status |-> status, length |-> length, body |-> body, exc |-> NoException]

Failure(cause) ==
    [status |-> 0, length |-> "absent", body |-> "", exc |-> cause]

\* Before the first attempt resolves.
NoOutcome == [status |-> 0, length |-> "absent", body |-> "", exc |-> NoException]

\* The outcomes of self._requestor.request: a response, or a RequestException
\* wrapping a cause.
TransportOutcomes ==
    UNION {{Response(s, l, b) : s \in SUCCESS_STATUSES, l \in Lengths(b)} :
              b \in Bodies}
        \cup {Response(s, "2", "{}") : s \in Statuses \ SUCCESS_STATUSES}
        \cup {Failure(c) : c \in Causes}

\* The outcomes of authorizer.refresh(): the token is renewed, the grant
\* cannot be renewed (an error that is no RequestException), or the token
\* request itself fails in the transport (a RequestException).
RefreshOutcomes == {"ok", "error"} \cup Causes

VARIABLES
    pc,            \* per thread: off | idle | sleep | call | refresh | send | done
    initial,       \* per thread: _retries of the strategy the request began with
    strategy,      \* per thread: _retries of the current retry_strategy_state
    log,           \* per thread: the events of the logical request, in order
    last,          \* per thread: the outcome of the latest attempt
    result,        \* per thread: what the entry call returned or raised
    tokenValid,    \* authorizer.is_valid()
    hasRefresh,    \* hasattr(authorizer, "refresh")
    clearCalls,    \* calls of authorizer._clear_access_token()
    refreshCalls,  \* calls of authorizer.refresh()
    delay,         \* per thread: _sleep_seconds() of the latest sleep() call
    args,          \* per thread: the caller's params, data and json before and
                   \* after the call, and what the call passes on
    objects,       \* the FiniteRetryStrategy instances created by direct calls
    returned       \* the latest consume_available_retry() call on one of them

sessionVars == <<pc, initial, strategy, log, last, result, tokenValid,
                 hasRefresh, clearCalls, refreshCalls, delay, args>>

strategyVars == <<objects, returned>>

vars == <<sessionVars, strategyVars>>

Event(e, n) == [e |-> e, n |-> n]

Pending == [kind |-> "pending", what |-> "", value |-> "", status |-> 0]
Return(type, value, status) ==
    [kind |-> "return", what |-> type, value |-> value, status |-> status]
Raise(what, value, status) ==
    [kind |-> "raise", what |-> what, value |-> value, status |-> status]

\* Authorizer._clear_access_token(): is_valid() afterwards.
valid_after_clear == FALSE

\* Authorizer.refresh() that returns: is_valid() afterwards.
valid_after_refresh == TRUE

\* Mutant: the validity test is inverted.
refreshes_first_when_valid(valid, refreshable) == valid /\ refreshable

\* RateLimiter.call: once the header callback has returned, the transport
\* request is made next.
after_header == "send"

\* Session._set_header_callback, line 295: whether refresh() is called before
\* the header is built.
refreshes_first(valid, refreshable) == ~valid /\ refreshable

(***************************************************************************)
(* Session._make_request: what the attempt hands back for an outcome of    *)
(* the rate-limited call.                                                  *)
(***************************************************************************)
\* Mutant: a transient failure is captured whatever retries are left.
make_request_captures_always(retries, out) ==
    IF out.exc = NoException
    THEN "response"
    ELSE IF out.exc \notin RETRY_EXCEPTIONS
         THEN "raise"
         ELSE "saved_exception"

\* Session._make_request, lines 221-230.
make_request(retries, out) ==
    IF out.exc = NoException
    THEN "response"
    ELSE IF \/ ~should_retry_on_failure(retries)
            \/ out.exc \notin RETRY_EXCEPTIONS
         THEN "raise"
         ELSE "saved_exception"

\* Mutant: a 403 clears the token too.
clears_token_on_forbidden(retries, out) ==
    make_request(retries, out) = "response" /\ out.status \in {401, 403}

\* Session._request_with_retries, line 260: the 401 test that clears the token.
clears_token(retries, out) ==
    make_request(retries, out) = "response" /\ out.status = Unauthorized

\* Mutant: every 401 is marked for a retry.
do_retry_flag_unconditional(retries, out, refreshable) ==
    clears_token(retries, out)

\* Session._request_with_retries, lines 259-263: do_retry.
do_retry_flag(retries, out, refreshable) ==
    clears_token(retries, out) /\ refreshable

\* Mutant: a 401 with a refreshable authorizer is retried once more after
\* the last retry is spent.
retries_attempt_past_budget_on_401(retries, out, refreshable) ==
    /\ make_request(retries, out) # "raise"
    /\ \/ do_retry_flag(retries, out, refreshable) /\ retries >= 1
       \/ /\ should_retry_on_failure(retries)
          /\ \/ make_request(retries, out) = "saved_exception"
             \/ out.status \in RETRY_STATUSES

\* Session._request_with_retries, line 265-267: the retry condition.
retries_attempt(retries, out, refreshable) ==
    /\ make_request(retries, out) # "raise"
    /\ should_retry_on_failure(retries)
    /\ \/ do_retry_flag(retries, out, refreshable)
       \/ make_request(retries, out) = "saved_exception"
       \/ out.status \in RETRY_STATUSES

\* Mutant: 204 falls through to the empty string.
final_result_no_content_as_str(retries, out) ==
    IF make_request(retries, out) = "raise"
    THEN Raise("RequestException", out.exc, 0)
    ELSE IF make_request(retries, out) = "saved_exception"
    THEN Raise("AttributeError", "NoneType.status_code", 0)
    ELSE IF out.status \in DOMAIN STATUS_EXCEPTIONS
    THEN Raise(STATUS_EXCEPTIONS[out.status], "", out.status)
    ELSE IF out.status = NoContent
    THEN Return("str", "", out.status)
    ELSE IF out.status \notin SUCCESS_STATUSES
    THEN Raise("AssertionError", "Unexpected status code", out.status)
    ELSE IF out.length = "0"
    THEN Return("str", "", out.status)
    ELSE IF json(out.body).ok
    THEN Return(json(out.body).type, json(out.body).value, out.status)
    ELSE Raise("BadJSON", "", out.status)

\* Session._request_with_retries, lines 280-292 (and 229 for a re-raised
\* RequestException): what the call returns or raises when it does not retry.
final_result(retries, out) ==
    IF make_request(retries, out) = "raise"
    THEN Raise("RequestException", out.exc, 0)
    ELSE IF make_request(retries, out) = "saved_exception"
    THEN Raise("AttributeError", "NoneType.status_code", 0)
    ELSE IF out.status \in DOMAIN STATUS_EXCEPTIONS
    THEN Raise(STATUS_EXCEPTIONS[out.status], "", out.status)
    ELSE IF out.status = NoContent
    THEN Return("NoneType", "None", out.status)
    ELSE IF out.status \notin SUCCESS_STATUSES
    THEN Raise("AssertionError", "Unexpected status code", out.status)
    ELSE IF out.length = "0"
    THEN Return("str", "", out.status)
    ELSE IF json(out.body).ok
    THEN Return(json(out.body).type, json(out.body).value, out.status)
    ELSE Raise("BadJSON", "", out.status)

\* Mutant: the retry state is kept on the session, one for all its requests.
retry_strategy_state_on_session(t) == 1

\* Where the retry state of thread t's request lives: retry_strategy_state is
\* an argument of _request_with_retries, handed down by _do_retry, so each
\* call chain holds its own.
retry_strategy_state(t) == t

(***************************************************************************)
(* The rest of an attempt once the rate-limited call has resolved with     *)
(* `out`: _make_request's return or raise, the 401 handling, and either    *)
(* _do_retry (the recursive call, up to its sleep) or the final result.    *)
(* `lg` is the thread's log up to the outcome.                             *)
(***************************************************************************)
resolve(t, out, lg) ==
    LET retries == strategy[retry_strategy_state(t)]
        seen == Append(lg, IF out.exc = NoException
                           THEN Event("response", out.status)
                           ELSE Event("failure", 0))
        cleared == IF clears_token(retries, out)
                   THEN Append(seen, Event("clear", 0))
                   ELSE seen
    IN  /\ last' = [last EXCEPT ![t] = out]
        /\ log' = [log EXCEPT ![t] = cleared]
        /\ clearCalls' = IF clears_token(retries, out)
                         THEN clearCalls + 1 ELSE clearCalls
        /\ tokenValid' = IF clears_token(retries, out)
                         THEN valid_after_clear ELSE tokenValid
        /\ IF retries_attempt(retries, out, hasRefresh)
           THEN /\ strategy' = [strategy EXCEPT
                                  ![retry_strategy_state(t)] =
                                      consume_available_retry(retries)]
                /\ pc' = [pc EXCEPT ![t] = "sleep"]
                /\ UNCHANGED result
           ELSE /\ result' = [result EXCEPT ![t] = final_result(retries, out)]
                /\ pc' = [pc EXCEPT ![t] = "done"]
                /\ UNCHANGED strategy

(***************************************************************************)
(* Actions.                                                                *)
(***************************************************************************)
\* Session.request: the call into _request_with_retries with no strategy
\* state, which constructs the default one.
request_given(t, given) ==
    /\ pc[t] = "idle"
    /\ pc' = [pc EXCEPT ![t] = "sleep"]
    /\ initial' = [initial EXCEPT ![t] = DefaultRetries]
    /\ strategy' = [strategy EXCEPT
                      ![retry_strategy_state(t)] = DefaultRetries]
    /\ args' = [args EXCEPT ![t] =
                  [via |-> "request",
                   before |-> given,
                   after |-> [params |-> request_params(given.params).caller,
                              data |-> request_data(given.data).caller,
                              json |-> request_json(given.json).caller],
                   sent |-> [params |-> request_params(given.params).sent,
                             data |-> request_data(given.data).sent,
                             json |-> request_json(given.json).sent]]]
    /\ UNCHANGED <<log, last, result, tokenValid, hasRefresh, clearCalls,
                   refreshCalls, delay>>
    /\ UNCHANGED strategyVars

request(t) == \E given \in Arguments : request_given(t, given)

\* Session._request_with_retries entered with a given retry_strategy_state.
request_with_retries(t) ==
    /\ pc[t] = "idle"
    /\ \E n \in 0..MaxRetries :
          /\ initial' = [initial EXCEPT ![t] = n]
          /\ strategy' = [strategy EXCEPT ![retry_strategy_state(t)] = n]
    /\ pc' = [pc EXCEPT ![t] = "sleep"]
    /\ args' = [args EXCEPT ![t] =
                  [via |-> "_request_with_retries", before |-> NoArguments,
                   after |-> NoArguments, sent |-> NoArguments]]
    /\ UNCHANGED <<log, last, result, tokenValid, hasRefresh, clearCalls,
                   refreshCalls, delay>>
    /\ UNCHANGED strategyVars

\* RetryStrategy.sleep, then the entry of _make_request.
sleep(t) ==
    /\ pc[t] = "sleep"
    /\ \E j \in 0..(JitterSteps - 1) :
          LET retries == strategy[retry_strategy_state(t)]
              seconds == sleep_seconds(retries, j)
              slept == IF seconds # None
                       THEN Append(log[t], Event("sleep", 0))
                       ELSE log[t]
          IN  /\ delay' = [delay EXCEPT ![t] = seconds]
              /\ log' = [log EXCEPT
                          ![t] = Append(slept, Event("attempt", retries))]
    /\ pc' = [pc EXCEPT ![t] = "call"]
    /\ UNCHANGED <<initial, strategy, last, result, tokenValid, hasRefresh,
                   clearCalls, refreshCalls>>
    /\ UNCHANGED <<args, strategyVars>>

\* Session._set_header_callback, called by the rate limiter before the
\* transport, up to its blocking call: the is_valid() and hasattr() tests,
\* then either the call of refresh(), in which the thread waits while others
\* run, or the header built from the token (logged with whether that token
\* is valid).
set_header_callback(t) ==
    /\ pc[t] = "call"
    /\ IF refreshes_first(tokenValid, hasRefresh)
       THEN /\ pc' = [pc EXCEPT ![t] = "refresh"]
            /\ log' = [log EXCEPT ![t] = Append(log[t], Event("refresh", 0))]
            /\ refreshCalls' = refreshCalls + 1
       ELSE /\ pc' = [pc EXCEPT ![t] = after_header]
            /\ log' = [log EXCEPT ![t] =
                  Append(log[t], Event("header", IF tokenValid THEN 1 ELSE 0))]
            /\ UNCHANGED refreshCalls
    /\ UNCHANGED <<initial, strategy, last, result, tokenValid, hasRefresh,
                   clearCalls, delay>>
    /\ UNCHANGED <<args, strategyVars>>

\* The return of authorizer.refresh() and the rest of _set_header_callback:
\* the token is renewed and the header built from it, or refresh() raises.  A
\* RequestException of refresh() is caught by _make_request.
refresh_of(t, outcomes) ==
    /\ pc[t] = "refresh"
    /\ \E r \in outcomes :
          IF r = "ok"
          THEN /\ tokenValid' = valid_after_refresh
               /\ log' = [log EXCEPT ![t] =
                     Append(log[t], Event("header",
                         IF valid_after_refresh THEN 1 ELSE 0))]
               /\ pc' = [pc EXCEPT ![t] = after_header]
               /\ UNCHANGED <<strategy, last, result, clearCalls>>
          ELSE IF r = "error"
          THEN /\ result' = [result EXCEPT ![t] = Raise("RefreshError", "", 0)]
               /\ pc' = [pc EXCEPT ![t] = "done"]
               /\ UNCHANGED <<strategy, last, log, tokenValid, clearCalls>>
          ELSE resolve(t, Failure(r), log[t])
    /\ UNCHANGED <<initial, hasRefresh, refreshCalls, delay>>
    /\ UNCHANGED <<args, strategyVars>>

refresh(t) == refresh_of(t, RefreshOutcomes)

\* The transport call of the attempt and everything up to the next blocking
\* call: the rest of _make_request and of _request_with_retries.
transport_of(t, outcomes) ==
    /\ pc[t] = "send"
    /\ \E out \in outcomes :
          resolve(t, out, Append(log[t], Event("send", 0)))
    /\ UNCHANGED <<initial, hasRefresh, refreshCalls, delay>>
    /\ UNCHANGED <<args, strategyVars>>

transport(t) == transport_of(t, TransportOutcomes)

Init ==
    /\ pc = [t \in Threads |-> IF t = 1 THEN "idle" ELSE "off"]
    /\ initial = [t \in Threads |-> 0]
    /\ strategy = [t \in Threads |-> 0]
    /\ log = [t \in Threads |-> << >>]
    /\ last = [t \in Threads |-> NoOutcome]
    /\ result = [t \in Threads |-> Pending]
    /\ tokenValid \in BOOLEAN
    /\ hasRefresh \in BOOLEAN
    /\ clearCalls = 0
    /\ refreshCalls = 0
    /\ delay = [t \in Threads |-> None]
    /\ args = [t \in Threads |->
                 [via |-> "", before |-> NoArguments, after |-> NoArguments,
                  sent |-> NoArguments]]
    /\ objects = << >>
    /\ returned = NoCall

Next ==
    \E t \in Threads :
        \/ request(t)
        \/ request_with_retries(t)
        \/ sleep(t)
        \/ set_header_callback(t)
        \/ refresh(t)
        \/ transport(t)

Spec == Init /\ [][Next]_vars

\* Every call the request blocks in (the sleep, the rate-limited call with its
\* header callback, refresh(), the transport) returns, and the caller does issue its
\* request.
FairSpec == Spec /\ WF_vars(Next)

(***************************************************************************)
(* Several requests at once on one Session: every thread calls             *)
(* Session.request with no params, data or json, the authorizer can        *)
(* refresh and holds a valid token or none, the transport answers 200 or   *)
(* 503, and refresh() renews the token or fails on the connection.         *)
(***************************************************************************)
ConcurrentOutcomes ==
    {Response(200, "2", "{}"), Response(503, "2", "{}")}

transport_concurrent(t) == transport_of(t, ConcurrentOutcomes)

request_concurrent(t) == request_given(t, NoArguments)

ConcurrentRefreshOutcomes == {"ok", "ConnectionError"}

refresh_concurrent(t) == refresh_of(t, ConcurrentRefreshOutcomes)

InitConcurrent ==
    /\ pc = [t \in Threads |-> "idle"]
    /\ initial = [t \in Threads |-> 0]
    /\ strategy = [t \in Threads |-> 0]
    /\ log = [t \in Threads |-> << >>]
    /\ last = [t \in Threads |-> NoOutcome]
    /\ result = [t \in Threads |-> Pending]
    /\ tokenValid \in BOOLEAN
    /\ hasRefresh = TRUE
    /\ clearCalls = 0
    /\ refreshCalls = 0
    /\ delay = [t \in Threads |-> None]
    /\ args = [t \in Threads |->
                 [via |-> "", before |-> NoArguments, after |-> NoArguments,
                  sent |-> NoArguments]]
    /\ objects = << >>
    /\ returned = NoCall

NextConcurrent ==
    \E t \in Threads :
        \/ request_concurrent(t)
        \/ sleep(t)
        \/ set_header_callback(t)
        \/ refresh_concurrent(t)
        \/ transport_concurrent(t)

ConcurrentSpec == InitConcurrent /\ [][NextConcurrent]_vars

(***************************************************************************)
(* FiniteRetryStrategy on its own: instances are constructed and consumed  *)
(* by direct calls, any instance any number of times.                      *)
(***************************************************************************)
\* FiniteRetryStrategy(retries)
construct ==
    /\ Len(objects) < MaxObjects
    /\ \E n \in 0..MaxRetries : objects' = Append(objects, Instance(n, 0))
    /\ UNCHANGED returned
    /\ UNCHANGED sessionVars

\* instance.consume_available_retry()
consume ==
    /\ Len(objects) < MaxObjects
    /\ \E o \in DOMAIN objects :
          LET call == consume_instance(objects, o)
          IN  /\ objects' = call.heap
              /\ returned' = [receiver |-> o, ref |-> call.ref,
                              before |-> objects[o].retries]
    /\ UNCHANGED sessionVars

StrategyNext == construct \/ consume

StrategySpec == Init /\ [][StrategyNext]_vars

(***************************************************************************)
(* Reading a thread's log.                                                 *)
(***************************************************************************)
Count(lg, e) == Cardinality({i \in DOMAIN lg : lg[i].e = e})

IsResolved(ev) == ev.e \in {"response", "failure"}

\* The outcomes of the attempts of a log, in order.
Resolved(lg) == SelectSeq(lg, IsResolved)

\* Every failure of the log is a failure of the transport call of its attempt.
TransportFailuresOnly(lg) ==
    \A i \in DOMAIN lg : lg[i].e = "failure" => (i > 1 /\ lg[i - 1].e = "send")

\* The thread issued its request through Session.request.
ByRequest(t) == pc[t] \notin {"off", "idle"} /\ initial[t] = DefaultRetries

Done(t) == pc[t] = "done"

\* The retryable statuses, as the specification lists them.
RetryableStatuses == {500, 502, 503, 504, 408, 520, 522}

IsRetryableOutcome(ev) ==
    \/ ev.e = "failure"
    \/ ev.e = "response" /\ ev.n \in RetryableStatuses

(***************************************************************************)
(* C1: a request through Session.request whose first k attempts (k >= 1)   *)
(* end in a retryable status or a transient transport failure and whose    *)
(* attempt k+1 answers 200 with a valid JSON body returns the decoded body *)
(* of that answer after exactly k+1 transport calls; no retryable status   *)
(* or transient failure is raised before the third attempt; and the        *)
(* answers (503, 503, 200) come with exactly two sleeps.                   *)
(***************************************************************************)
C1_AbsorbedThenSuccess(t) ==
    LET rs == Resolved(log[t])
        k == Len(rs) - 1
    IN  (/\ Done(t)
         /\ k >= 1
         /\ TransportFailuresOnly(log[t])
         /\ \A i \in 1..k : IsRetryableOutcome(rs[i])
         /\ last[t].exc = NoException
         /\ last[t].status = 200
         /\ last[t].length # "0"
         /\ json(last[t].body).ok)
        => /\ result[t] = Return(json(last[t].body).type,
                                 json(last[t].body).value, 200)
           /\ Count(log[t], "send") = k + 1
           /\ Count(log[t], "attempt") = k + 1
           /\ (rs = <<Event("response", 503), Event("response", 503),
                      Event("response", 200)>>
                 => Count(log[t], "sleep") = 2)

C1_NoEarlyError(t) ==
    (/\ Done(t)
     /\ \/ result[t] = Raise("ServerError", "", 503)
        \/ \E c \in {"ChunkedEncodingError", "ConnectionError", "ReadTimeout"} :
              result[t] = Raise("RequestException", c, 0))
    => Count(log[t], "attempt") = DefaultRetries

\* C1: both parts, for every request issued through Session.request.
C1_RetryThenSuccess ==
    \A t \in Threads :
        ByRequest(t) => C1_AbsorbedThenSuccess(t) /\ C1_NoEarlyError(t)

\* C1's case: the answers 503, 503, 200 with a JSON body, returned decoded.
C1_Witness ==
    \E t \in Threads :
        /\ ByRequest(t) /\ Done(t)
        /\ Resolved(log[t]) = <<Event("response", 503), Event("response", 503),
                                Event("response", 200)>>
        /\ last[t].body = "{}"
        /\ result[t] = Return("dict", "dict()", 200)
        /\ Count(log[t], "sleep") = 2

(***************************************************************************)
(* C2: when every attempt answers 503, the request makes exactly as many   *)
(* attempts as the strategy it began with allows (3 by default), never     *)
(* one more, and ends by raising ServerError with the last 503 response.   *)
(***************************************************************************)
All503(lg) ==
    \A i \in DOMAIN lg : IsResolved(lg[i]) => lg[i] = Event("response", 503)

\* Every attempt the log starts has resolved, in a response or a failure.
EveryAttemptAnswered(lg) == Count(lg, "attempt") = Len(Resolved(lg))

\* C2: all-503 runs make exactly initial attempts, then raise ServerError.
C2_AlwaysUnavailable ==
    \A t \in Threads :
        (pc[t] \notin {"off", "idle"} /\ initial[t] >= 1 /\ All503(log[t]))
        => /\ Count(log[t], "attempt") <= initial[t]
           /\ (Done(t) /\ EveryAttemptAnswered(log[t]))
                 => /\ Count(log[t], "attempt") = initial[t]
                    /\ Count(log[t], "send") = initial[t]
                    /\ result[t] = Raise("ServerError", "", 503)

\* C2's case: three 503 answers to a default request, then ServerError.
C2_Witness ==
    \E t \in Threads :
        /\ ByRequest(t) /\ Done(t)
        /\ Resolved(log[t]) = <<Event("response", 503), Event("response", 503),
                                Event("response", 503)>>
        /\ result[t] = Raise("ServerError", "", 503)

(***************************************************************************)
(* C3: a request that ends on a response with a retryable status (the      *)
(* attempt with no retries remaining) raises ServerError with that         *)
(* response, whichever status of the retryable set it is.                  *)
(***************************************************************************)
C3_ExhaustedIsServerError ==
    \A t \in Threads :
        (/\ Done(t)
         /\ last[t].exc = NoException
         /\ last[t].status \in RetryableStatuses
         /\ Resolved(log[t]) # << >>)
        => result[t] = Raise("ServerError", "", last[t].status)

(***************************************************************************)
(* C4: the authorizer's token is cleared once for each 401 response and    *)
(* for nothing else: the clears of the authorizer are as many as the 401   *)
(* responses received, and each clear directly follows a 401 response.     *)
(***************************************************************************)
Count401(lg) == Cardinality({i \in DOMAIN lg : lg[i] = Event("response", 401)})

RECURSIVE SumOver(_, _)
SumOver(f, S) ==
    IF S = {} THEN 0
    ELSE LET x == CHOOSE y \in S : TRUE IN f[x] + SumOver(f, S \ {x})

\* C4: clears equal 401 responses, and each clear directly follows one.
C4_ClearPer401 ==
    /\ clearCalls = SumOver([t \in Threads |-> Count401(log[t])], Threads)
    /\ \A t \in Threads :
          /\ Count(log[t], "clear") = Count401(log[t])
          /\ \A i \in DOMAIN log[t] :
                log[t][i].e = "clear"
                    => i > 1 /\ log[t][i - 1] = Event("response", 401)

\* C4's case: 401 responses were received, with retries left and without,
\* and other outcomes too.
C4_Witness ==
    \E t \in Threads :
        /\ Done(t)
        /\ Count401(log[t]) = 2
        /\ clearCalls = 2
        /\ Count(log[t], "failure") = 1

(***************************************************************************)
(* C5: with a refresh-capable authorizer a 401 received while retries      *)
(* remain is retried (the request does not end on it), and no transport    *)
(* call follows a 401 response without a refresh() in between.             *)
(***************************************************************************)
AuthorizationError401 == Raise("authorization_error_class", "", 401)

C5_RefreshBeforeRetry ==
    \A t \in Threads :
        hasRefresh =>
            /\ (Done(t) /\ result[t] = AuthorizationError401) => strategy[t] <= 1
            /\ \A i, j \in DOMAIN log[t] :
                  (/\ i < j
                   /\ log[t][i] = Event("response", 401)
                   /\ log[t][j].e = "send")
                  => \E k \in (i + 1)..(j - 1) : log[t][k].e = "refresh"

\* C5's case: a 401 with retries left, then a refresh and the next
\* transport call.
C5_Witness ==
    \E t \in Threads :
        /\ hasRefresh
        /\ \E i \in DOMAIN log[t] :
              /\ log[t][i] = Event("response", 401)
              /\ i + 5 \in DOMAIN log[t]
              /\ log[t][i + 4].e = "refresh"
              /\ log[t][i + 5].e = "header"
        /\ \E j \in DOMAIN log[t] : j > 5 /\ log[t][j].e = "send"

(***************************************************************************)
(* C6: with an authorizer that has no refresh, a 401 response on any       *)
(* attempt ends the request: the token is cleared, the authorization       *)
(* error of status 401 is raised, and nothing (no sleep, no attempt)       *)
(* follows.                                                                *)
(***************************************************************************)
C6_NoRefreshNoRetry ==
    \A t \in Threads :
        ~hasRefresh =>
            \A i \in DOMAIN log[t] :
                log[t][i] = Event("response", 401)
                => /\ Len(log[t]) = i + 1
                   /\ log[t][i + 1].e = "clear"
                   /\ Done(t)
                   /\ result[t] = AuthorizationError401

\* C6's case: the 401 arrives on the first attempt, with all retries left.
C6_Witness ==
    \E t \in Threads :
        /\ ~hasRefresh
        /\ ByRequest(t) /\ Done(t)
        /\ strategy[t] = DefaultRetries
        /\ Resolved(log[t]) = <<Event("response", 401)>>
        /\ result[t] = AuthorizationError401
        /\ clearCalls = 1

(***************************************************************************)
(* C7: no attempt is sent with a header built from a token the authorizer  *)
(* reports invalid: a refresh-capable authorizer is refreshed before the   *)
(* header is built, and without refresh capability the request raises      *)
(* InvalidInvocation instead of building the header.                       *)
(***************************************************************************)
C7_InvalidTokenNeverSent ==
    \A t \in Threads :
        \A i \in DOMAIN log[t] :
            log[t][i].e = "header"
            => log[t][i].n = 1

(***************************************************************************)
(* C8: in a request through Session.request the first attempt starts       *)
(* without a sleep, and every later attempt starts right after exactly one *)
(* sleep that itself follows the previous attempt's outcome; so the sleeps *)
(* are always one fewer than the attempts started.                         *)
(***************************************************************************)
C8_SleepBeforeEveryRetry ==
    \A t \in Threads :
        ByRequest(t) =>
            LET lg == log[t] IN
            /\ Count(lg, "attempt") = 0 => lg = << >>
            /\ Count(lg, "attempt") >= 1
                  => Count(lg, "sleep") = Count(lg, "attempt") - 1
            /\ lg # << >> => lg[1].e = "attempt"
            /\ \A i \in DOMAIN lg :
                  /\ (lg[i].e = "attempt" /\ i > 1)
                        => /\ lg[i - 1].e = "sleep"
                           /\ i > 2
                           /\ lg[i - 2].e \in {"response", "failure", "clear"}
                  /\ lg[i].e = "sleep"
                        => /\ i > 1
                           /\ lg[i - 1].e \in {"response", "failure", "clear"}
                  /\ lg[i].e = "send"
                        => /\ i > 1
                           /\ lg[i - 1].e = "header"

\* C8's case: three attempts, two sleeps, the first attempt unslept.
C8_Witness ==
    \E t \in Threads :
        /\ ByRequest(t)
        /\ Count(log[t], "attempt") = 3
        /\ Count(log[t], "sleep") = 2
        /\ log[t][1] = Event("attempt", 3)
        /\ Count(log[t], "send") = 3

(***************************************************************************)
(* C9: the delay slept before an attempt, by the retries of its strategy.  *)
(* As specified: retries = 3 sleeps in [0,2), retries = 2 in [2,4),        *)
(* retries <= 1 not at all.  As the code has it: retries >= 3 does not     *)
(* sleep, retries = 2 sleeps in [0,2), retries <= 1 in [2,4).              *)
(***************************************************************************)
\* The thread's latest sleep() call was made by its current strategy.
HasSlept(t) == pc[t] \in {"call", "refresh", "send", "done"}

\* d, in units of 1/JitterSteps second, lies in [lo, hi) seconds.
InSeconds(d, lo, hi) == d # None /\ lo * JitterSteps <= d /\ d < hi * JitterSteps

\* C9 as specified: 3 -> [0,2), 2 -> [2,4), <= 1 -> None.
C9_AsSpecified ==
    \A t \in Threads :
        HasSlept(t)
        => /\ strategy[t] = 3 => InSeconds(delay[t], 0, 2)
           /\ strategy[t] = 2 => InSeconds(delay[t], 2, 4)
           /\ strategy[t] <= 1 => delay[t] = None

\* C9 as amended: >= 3 -> None, 2 -> [0,2), <= 1 -> [2,4).
C9_SleepSchedule ==
    \A t \in Threads :
        HasSlept(t)
        => /\ strategy[t] >= 3 => delay[t] = None
           /\ strategy[t] = 2 => InSeconds(delay[t], 0, 2)
           /\ strategy[t] <= 1 => InSeconds(delay[t], 2, 4)

\* C9's case: a request slept for its second attempt and then, with one
\* retry left, for its third, with the largest delay drawn.
C9_Witness ==
    \E t \in Threads :
        /\ HasSlept(t)
        /\ initial[t] = DefaultRetries
        /\ strategy[t] = 1
        /\ Count(log[t], "sleep") = 2
        /\ delay[t] = 2 * JitterSteps + 2 * (JitterSteps - 1)

(***************************************************************************)
(* C10: an attempt that runs with retries <= 1 is the last one, whatever   *)
(* its outcome; a retryable status is raised only by such an attempt; and  *)
(* a request begun with retries <= 1 makes exactly one attempt.            *)
(***************************************************************************)
C10_NoRetryWhenExhausted ==
    \A t \in Threads :
        /\ \A i \in DOMAIN log[t] :
              (log[t][i].e = "attempt" /\ log[t][i].n <= 1)
              => /\ \A j \in DOMAIN log[t] :
                       j > i => log[t][j].e \notin {"attempt", "sleep"}
                 /\ (\E j \in DOMAIN log[t] : j > i /\ IsResolved(log[t][j]))
                       => Done(t)
        /\ (Done(t) /\ result[t].kind = "raise"
                /\ result[t].status \in RetryableStatuses)
              => strategy[t] <= 1
        /\ (pc[t] \notin {"off", "idle"} /\ initial[t] <= 1)
              => /\ Count(log[t], "attempt") <= 1
                 /\ Done(t) => Count(log[t], "attempt") = 1

\* C10's case: a strategy of retries=1 met a retryable outcome and stopped.
C10_Witness ==
    \E t \in Threads :
        /\ initial[t] = 1
        /\ Done(t)
        /\ Count(log[t], "attempt") = 1
        /\ result[t] = Raise("RequestException", "ReadTimeout", 0)

(***************************************************************************)
(* C11: consume_available_retry() leaves its receiver as it was and        *)
(* returns another instance, whose retries are the receiver's minus one:   *)
(* every instance made by a consume call holds one retry fewer than the    *)
(* instance it was made from holds now, so two calls on one instance give  *)
(* two instances with equal retries.                                       *)
(***************************************************************************)
C11_ConsumeLeavesReceiver ==
    /\ returned # NoCall
          => /\ returned.ref # returned.receiver
             /\ returned.ref \in DOMAIN objects
             /\ objects[returned.receiver].retries = returned.before
             /\ objects[returned.ref].retries = returned.before - 1
    /\ \A o \in DOMAIN objects :
          objects[o].parent # 0
              => /\ objects[o].parent # o
                 /\ objects[o].retries
                        = objects[objects[o].parent].retries - 1
    /\ \A o1, o2 \in DOMAIN objects :
          (objects[o1].parent # 0 /\ objects[o1].parent = objects[o2].parent)
              => objects[o1].retries = objects[o2].retries

\* C11's case: one instance of 3 retries consumed twice, and one of the
\* results consumed again.
C11_Witness ==
    \E p, o1, o2, o3 \in DOMAIN objects :
        /\ objects[p] = Instance(3, 0)
        /\ o1 # o2
        /\ objects[o1] = Instance(2, p)
        /\ objects[o2] = Instance(2, p)
        /\ objects[o3] = Instance(1, o1)
        /\ returned = [receiver |-> o1, ref |-> o3, before |-> 2]

(***************************************************************************)
(* C12: Session.request leaves the caller's params, data and json as they  *)
(* were, at every point of the call and after it, however it ends; what it *)
(* passes on carries raw_json in params and api_type in a dict's data and  *)
(* json, the data sorted by key.                                           *)
(***************************************************************************)
C12_ArgumentsUntouched ==
    \A t \in Threads :
        args[t].via = "request"
        => /\ args[t].after = args[t].before
           /\ <<"raw_json", "1">> \in args[t].sent.params.items
           /\ args[t].before.data.kind = "dict"
                 => /\ args[t].sent.data.kind = "list"
                    /\ \E i \in DOMAIN args[t].sent.data.items :
                          args[t].sent.data.items[i] = <<"api_type", "json">>
           /\ args[t].before.json.kind = "dict"
                 => <<"api_type", "json">> \in args[t].sent.json.items

\* C12's case: a request given dicts ended in an error after two retries;
\* its data went out as the sorted items with api_type.
C12_Witness ==
    \E t \in Threads :
        /\ args[t].via = "request"
        /\ Done(t)
        /\ result[t].kind = "raise"
        /\ Count(log[t], "attempt") = 3
        /\ args[t].before.params = Dict({<<"a", "1">>})
        /\ args[t].after.params = Dict({<<"a", "1">>})
        /\ args[t].sent.params = Dict({<<"a", "1">>, <<"raw_json", "1">>})
        /\ args[t].sent.data
              = List(<<(<<"a", "1">>), (<<"api_type", "json">>), (<<"b", "2">>)>>)

(***************************************************************************)
(* C13: a request that ends on a response with status 204 returns None; on *)
(* a response with status 200, 201 or 202 it returns the empty string when *)
(* content-length is 0, the decoded value when the body parses as JSON,    *)
(* and raises BadJSON when the body does not parse.                        *)
(***************************************************************************)
\* The request of thread t ended on the response it received last.
EndedOnResponse(t) ==
    /\ Done(t)
    /\ Len(log[t]) > 0
    /\ last[t].exc = NoException
    /\ log[t][Len(log[t])] = Event("response", last[t].status)

\* C13: the result of a 204 and of a 200, 201 or 202 response.
C13_ResultOfResponse ==
    \A t \in Threads :
        EndedOnResponse(t)
        => /\ last[t].status = 204
                 => result[t] = Return("NoneType", "None", 204)
           /\ last[t].status \in {200, 201, 202}
                 => /\ last[t].length = "0"
                          => result[t] = Return("str", "", last[t].status)
                    /\ (last[t].length # "0" /\ last[t].body = "{}")
                          => result[t] = Return("dict", "dict()", last[t].status)
                    /\ (last[t].length # "0" /\ last[t].body = "[]")
                          => result[t] = Return("list", "list()", last[t].status)
                    /\ (last[t].length # "0" /\ last[t].body = "null")
                          => result[t] = Return("NoneType", "None",
                                                last[t].status)
                    /\ (last[t].length # "0"
                        /\ last[t].body \notin {"{}", "[]", "null"})
                          => result[t] = Raise("BadJSON", "", last[t].status)

\* C13's case: a 204 answered a retried request, which returned None.
C13_Witness ==
    \E t \in Threads :
        /\ EndedOnResponse(t)
        /\ last[t].status = 204
        /\ Count(log[t], "attempt") = 2
        /\ result[t] = Return("NoneType", "None", 204)

(***************************************************************************)
(* C14: a response with a non-retryable status of the error table ends the *)
(* request on the attempt that received it: nothing follows the response   *)
(* (no clear, no sleep, no further attempt) and the mapped error is        *)
(* raised, whatever retries remain.                                        *)
(***************************************************************************)
\* The non-retryable statuses and their errors, as the specification has them.
SpecifiedErrors ==
    (400 :> "BadRequest") @@
    (403 :> "authorization_error_class") @@
    (404 :> "NotFound") @@
    (301 :> "Redirect") @@
    (302 :> "Redirect") @@
    (409 :> "Conflict") @@
    (413 :> "TooLarge") @@
    (414 :> "URITooLong") @@
    (415 :> "SpecialError") @@
    (420 :> "TooManyRequests") @@
    (451 :> "UnavailableForLegalReasons")

\* The same with TooManyRequests at 429.
AmendedErrors ==
    [s \in (DOMAIN SpecifiedErrors \ {420}) \cup {429} |->
        IF s = 429 THEN "TooManyRequests" ELSE SpecifiedErrors[s]]

SurfacedAtOnce(t, errors) ==
    \A i \in DOMAIN log[t] :
        (log[t][i].e = "response" /\ log[t][i].n \in DOMAIN errors)
        => /\ i = Len(log[t])
           /\ Done(t)
           /\ result[t] = Raise(errors[log[t][i].n], "", log[t][i].n)

\* C14 as specified, with 420 as the status of TooManyRequests.
C14_AsSpecified == \A t \in Threads : SurfacedAtOnce(t, SpecifiedErrors)

\* C14: the same, with 429 as the status of TooManyRequests.
C14_SurfacedAtOnce == \A t \in Threads : SurfacedAtOnce(t, AmendedErrors)

\* C14's case: the first attempt of a default request is answered 429 and
\* TooManyRequests is raised with all retries left.
C14_Witness ==
    \E t \in Threads :
        /\ ByRequest(t) /\ Done(t)
        /\ strategy[t] = DefaultRetries
        /\ Count(log[t], "attempt") = 1
        /\ Count(log[t], "sleep") = 0
        /\ log[t][Len(log[t])] = Event("response", 429)
        /\ result[t] = Raise("TooManyRequests", "", 429)

(***************************************************************************)
(* C15: a failure of the transport is retried exactly when its cause is a  *)
(* ConnectionError, a ChunkedEncodingError or a ReadTimeout and the        *)
(* attempt has more than one retry left; otherwise the request ends there, *)
(* raising that same exception.  No failure is followed by a clear of the  *)
(* token.                                                                  *)
(***************************************************************************)
\* The remaining retries of the latest attempt the log starts.
LastAttempt(lg) ==
    LET attempts == {i \in DOMAIN lg : lg[i].e = "attempt"}
    IN  lg[CHOOSE i \in attempts : \A j \in attempts : j <= i].n

\* C15: what follows a transport failure.
C15_FailureRetriedOrRaised ==
    \A t \in Threads :
        /\ (Len(log[t]) > 0 /\ log[t][Len(log[t])].e = "failure")
           => IF /\ last[t].exc \in {"ConnectionError", "ChunkedEncodingError",
                                      "ReadTimeout"}
                 /\ LastAttempt(log[t]) > 1
              THEN /\ pc[t] = "sleep"
                   /\ result[t] = Pending
                   /\ strategy[t] = LastAttempt(log[t]) - 1
              ELSE /\ Done(t)
                   /\ result[t] = Raise("RequestException", last[t].exc, 0)
                   /\ strategy[t] = LastAttempt(log[t])
        /\ \A i \in DOMAIN log[t] :
              (log[t][i].e = "failure" /\ i < Len(log[t]))
              => log[t][i + 1].e \in {"sleep", "attempt"}

\* C15's case: the first attempt of a default request failed on an invalid
\* URL and the exception was raised with all retries left.
C15_Witness ==
    \E t \in Threads :
        /\ ByRequest(t) /\ Done(t)
        /\ log[t][Len(log[t])].e = "failure"
        /\ Count(log[t], "attempt") = 1
        /\ strategy[t] = DefaultRetries
        /\ result[t] = Raise("RequestException", "InvalidURL", 0)

(***************************************************************************)
(* C16: a response whose status is not 200, 201, 202 or 204, has no error  *)
(* mapped and is not retryable ends the request on the attempt that        *)
(* received it, by an AssertionError; nothing follows the response.        *)
(***************************************************************************)
Unanticipated(status) ==
    /\ status \notin {200, 201, 202}
    /\ status # 204
    /\ status \notin DOMAIN STATUS_EXCEPTIONS
    /\ status \notin RETRY_STATUSES

\* The errors of the taxonomy, as the model names them.
TypedErrors ==
    {STATUS_EXCEPTIONS[s] : s \in DOMAIN STATUS_EXCEPTIONS}
        \cup {"BadJSON", "RequestException", "RefreshError"}

\* C16: an unanticipated status is an assertion failure, never retried.
C16_UnanticipatedStatus ==
    \A t \in Threads :
        \A i \in DOMAIN log[t] :
            (log[t][i].e = "response" /\ Unanticipated(log[t][i].n))
            => /\ i = Len(log[t])
               /\ Done(t)
               /\ result[t] = Raise("AssertionError", "Unexpected status code",
                                    log[t][i].n)
               /\ result[t].what \notin TypedErrors

\* C16's case: the first attempt of a default request is answered 203.
C16_Witness ==
    \E t \in Threads :
        /\ ByRequest(t) /\ Done(t)
        /\ strategy[t] = DefaultRetries
        /\ Count(log[t], "attempt") = 1
        /\ log[t][Len(log[t])] = Event("response", 203)
        /\ result[t].what = "AssertionError"

(***************************************************************************)
(* C17: with several requests in flight on one Session, each request has   *)
(* its own chain of retry states: it starts with 3 retries, its k-th       *)
(* attempt runs with 4 - k, it makes at most 3 attempts, and its remaining *)
(* retries are what its own attempts have consumed, whatever the other     *)
(* requests do in between.                                                 *)
(***************************************************************************)
\* The attempt events of a log, in order.
IsAttempt(ev) == ev.e = "attempt"
Attempts(lg) == SelectSeq(lg, IsAttempt)

\* C17: every request's retries follow from its own attempts alone.
C17_OwnRetryChain ==
    \A t \in Threads :
        pc[t] \notin {"off", "idle"}
        => /\ initial[t] = 3
           /\ Len(Attempts(log[t])) <= 3
           /\ \A k \in DOMAIN Attempts(log[t]) :
                 Attempts(log[t])[k].n = 4 - k
           /\ strategy[t] = IF pc[t] = "sleep"
                            THEN 3 - Len(Attempts(log[t]))
                            ELSE 4 - Len(Attempts(log[t]))

\* C17's case: two requests at once, both having found the token invalid and
\* called refresh() on their first attempt; one is on its third attempt with
\* one retry left while the other is still on its first with all three.
C17_Witness ==
    \E t, u \in Threads :
        /\ t # u
        /\ pc[t] = "send" /\ Len(Attempts(log[t])) = 3 /\ strategy[t] = 1
        /\ pc[u] = "send" /\ Len(Attempts(log[u])) = 1 /\ strategy[u] = 3
        /\ log[t][2].e = "refresh" /\ log[u][2].e = "refresh"
        /\ refreshCalls >= 2

(***************************************************************************)
(* C18: whatever the outcomes of its attempts, a request through           *)
(* Session.request makes at most 3 attempts, the k-th with 4 - k retries   *)
(* in its strategy, which never holds less than 1; and it ends.            *)
(***************************************************************************)
C18_Countdown ==
    \A t \in Threads :
        ByRequest(t)
        => /\ Len(Attempts(log[t])) <= 3
           /\ Count(log[t], "send") <= 3
           /\ \A k \in DOMAIN Attempts(log[t]) :
                 Attempts(log[t])[k].n = 4 - k
           /\ strategy[t] >= 1

\* C18: the countdown holds throughout and every request ends.
C18_EndsWithinThree ==
    /\ []C18_Countdown
    /\ \A t \in Threads : ByRequest(t) ~> Done(t)

\* C18's case: a request ended on its third attempt, after a 401, a transport
\* failure and a retryable status.
C18_Witness ==
    \E t \in Threads :
        /\ ByRequest(t) /\ Done(t)
        /\ Attempts(log[t]) = <<Event("attempt", 3), Event("attempt", 2),
                               Event("attempt", 1)>>
        /\ Resolved(log[t]) = <<Event("response", 401), Event("failure", 0),
                               Event("response", 502)>>
        /\ strategy[t] = 1

(***************************************************************************)
(* C19: the classification by status is only reached with a response.  A   *)
(* request never ends in the AttributeError of a missing response; a       *)
(* result that carries a status comes from a response with that status;    *)
(* and a failure that was captured, not raised, was captured with more     *)
(* than one retry left and is followed by the retry.                       *)
(***************************************************************************)
C19_ClassifiesResponsesOnly ==
    \A t \in Threads :
        /\ result[t].what # "AttributeError"
        /\ (Done(t) /\ result[t].status # 0)
              => /\ last[t].exc = NoException
                 /\ last[t].status = result[t].status
                 /\ Len(Resolved(log[t])) > 0
                 /\ Resolved(log[t])[Len(Resolved(log[t]))]
                       = Event("response", result[t].status)
        /\ (/\ ~Done(t)
            /\ Len(log[t]) > 0
            /\ log[t][Len(log[t])].e = "failure")
              => /\ pc[t] = "sleep"
                 /\ LastAttempt(log[t]) > 1
                 /\ should_retry_on_failure(LastAttempt(log[t]))

\* C19's case: a failure captured on the second attempt, the last with a
\* retry to spare, and the third attempt's response classified.
C19_Witness ==
    \E t \in Threads :
        /\ Done(t)
        /\ Attempts(log[t]) = <<Event("attempt", 3), Event("attempt", 2),
                               Event("attempt", 1)>>
        /\ Resolved(log[t]) = <<Event("response", 503), Event("failure", 0),
                               Event("response", 404)>>
        /\ result[t] = Raise("NotFound", "", 404)

(***************************************************************************)
(* C20: with an authorizer that can refresh, a 401 on the attempt whose    *)
(* strategy has one retry left clears the token and raises the             *)
(* authorization error, with no refresh and no attempt after it; a request *)
(* answered 401 every time makes exactly 3 attempts, clears the token 3    *)
(* times and raises the authorization error.                               *)
(***************************************************************************)
All401(lg) ==
    \A i \in DOMAIN lg : IsResolved(lg[i]) => lg[i] = Event("response", 401)

\* C20: 401 retries are counted like the others.
C20_UnauthorizedWithinBudget ==
    \A t \in Threads :
        (ByRequest(t) /\ hasRefresh)
        => /\ \A i \in DOMAIN log[t] :
                 (/\ log[t][i] = Event("response", 401)
                  /\ LastAttempt(SubSeq(log[t], 1, i)) = 1)
                 => /\ Len(log[t]) = i + 1
                    /\ log[t][i + 1].e = "clear"
                    /\ Done(t)
                    /\ result[t] = AuthorizationError401
           /\ (Done(t) /\ EveryAttemptAnswered(log[t]) /\ All401(log[t]))
                 => /\ Count(log[t], "attempt") = 3
                    /\ Count(log[t], "send") = 3
                    /\ Count(log[t], "clear") = 3
                    /\ result[t] = AuthorizationError401

\* C20's case: three 401 answers to a default request whose authorizer
\* refreshed before each retry.
C20_Witness ==
    \E t \in Threads :
        /\ ByRequest(t) /\ hasRefresh /\ Done(t)
        /\ Resolved(log[t]) = <<Event("response", 401), Event("response", 401),
                               Event("response", 401)>>
        /\ Count(log[t], "clear") = 3
        /\ Count(log[t], "refresh") >= 2
        /\ log[t][Len(log[t])].e = "clear"
        /\ result[t] = AuthorizationError401

====
